---- MODULE Spec2Model ----
(***************************************************************************)
(* The digest pipeline of the learning coach: DigestGenerator.generate     *)
(* (cache lookup, query, retrieval, synthesis, quality gate, upsert),      *)
(* VectorRetriever (hybrid ranking, source diversification),               *)
(* EducationalSynthesizer (response parsing, validation) and               *)
(* RAGASEvaluator / QualityGate (scores, gate predicate, retry loop).      *)
(*                                                                         *)
(* Units.  Scores are integers in units of 1/300 (0.70 = 210, 0.75 = 225,  *)
(* 0.85 = 255, 1.0 = 300) so that the mean of three scores is an integer.  *)
(* Similarities are in hundredths.  Time is in whole hours.                *)
(***************************************************************************)
EXTENDS Integers, Sequences, FiniteSets, TLC

(***************************************************************************)
(* Bounds of the model.                                                    *)
(***************************************************************************)
MaxTime == 9
TickHours == 3
MaxCand == 3
MaxTopK == 3
MaxMinSources == 3
MaxTokens == 5

(***************************************************************************)
(* Program constants.                                                      *)
(***************************************************************************)
CacheHours == 6
InsightCap == 10
DefaultTopK == 15
DefaultMinSources == 3
max_retries == 2
min_score == 210
HighBadgeMin == 255
GoodBadgeMin == 210
FallbackScore == 225
RecencyDays == 30
similarity_weight == 6
recency_weight == 3
priority_weight == 1
SourceChunkRefs == 3

Min(a, b) == IF a <= b THEN a ELSE b
Max(a, b) == IF a >= b THEN a ELSE b

(***************************************************************************)
(* VectorRetriever.  A chunk is a record [id, source_id, similarity,       *)
(* days_old, source_priority]; days_old is (now - published_at).days.      *)
(***************************************************************************)

\* A recency factor that is zero for a date ahead of the clock.
recency_factor_future_zero(days_old) ==
    IF days_old < 0 THEN 0
    ELSE IF RecencyDays - days_old >= 0 THEN RecencyDays - days_old ELSE 0

\* recency_factor = max(0, 1 - days_old/30), scaled by 30.
recency_factor(days_old) == Max(0, RecencyDays - days_old)

\* hybrid_score = w_sim*similarity + w_rec*recency + w_pri*priority/5 over
\* the common denominator 3000 (weights in tenths, similarity in hundredths,
\* recency in thirtieths, priority in fifths).
hybrid_score(chunk, w_sim, w_rec, w_pri) ==
    w_sim * chunk.similarity * 3
    + w_rec * recency_factor(chunk.days_old) * 10
    + w_pri * chunk.source_priority * 60

\* list.sort(key=final_score, reverse=True): stable, so equal scores keep
\* their original relative order.  Insertion of x into a sorted list after
\* every element whose score is >= x's.
RECURSIVE InsertDesc(_, _)
InsertDesc(sorted, x) ==
    IF sorted = <<>> THEN <<x>>
    ELSE IF Head(sorted).final_score >= x.final_score
         THEN <<Head(sorted)>> \o InsertDesc(Tail(sorted), x)
         ELSE <<x>> \o sorted

RECURSIVE SortDesc(_)
SortDesc(s) ==
    IF s = <<>> THEN <<>>
    ELSE InsertDesc(SortDesc(SubSeq(s, 1, Len(s) - 1)), s[Len(s)])

_apply_hybrid_ranking(chunks, w_rec, w_pri, w_sim) ==
    SortDesc([i \in 1..Len(chunks) |->
        [id |-> chunks[i].id,
         source_id |-> chunks[i].source_id,
         similarity |-> chunks[i].similarity,
         days_old |-> chunks[i].days_old,
         source_priority |-> chunks[i].source_priority,
         recency |-> recency_factor(chunks[i].days_old),
         final_score |-> hybrid_score(chunks[i], w_sim, w_rec, w_pri)]])

SourcesOf(chunks) == {chunks[i].source_id : i \in 1..Len(chunks)}

\* The first pass of _ensure_source_diversity: st is the loop state
\* [diverse, remaining, seen], i the index of the chunk being visited.
RECURSIVE FirstPass(_, _, _, _, _)
FirstPass(chunks, i, st, min_sources, top_k) ==
    IF i > Len(chunks) THEN st
    ELSE IF chunks[i].source_id \notin st.seen
    THEN LET st2 == [diverse |-> Append(st.diverse, chunks[i]),
                     remaining |-> st.remaining,
                     seen |-> st.seen \cup {chunks[i].source_id}]
         IN IF Cardinality(st2.seen) >= min_sources /\ Len(st2.diverse) >= top_k
            THEN st2
            ELSE FirstPass(chunks, i + 1, st2, min_sources, top_k)
    ELSE FirstPass(chunks, i + 1,
                   [diverse |-> st.diverse,
                    remaining |-> Append(st.remaining, chunks[i]),
                    seen |-> st.seen],
                   min_sources, top_k)

\* s[:n] for n >= 0.
Prefix(s, n) == SubSeq(s, 1, Min(n, Len(s)))

\* Plain truncation of the ranked list.
_ensure_source_diversity_truncating(chunks, min_sources, top_k) ==
    Prefix(chunks, top_k)

_ensure_source_diversity(chunks, min_sources, top_k) ==
    IF chunks = <<>> THEN <<>>
    ELSE LET st == FirstPass(chunks, 1,
                       [diverse |-> <<>>, remaining |-> <<>>, seen |-> {}],
                       min_sources, top_k)
             filled == IF Len(st.diverse) < top_k
                       THEN st.diverse \o Prefix(st.remaining, top_k - Len(st.diverse))
                       ELSE st.diverse
         IN Prefix(filled, top_k)

\* retrieve() after the embedding and the vector search have answered with
\* similar_chunks.
retrieve(similar_chunks, top_k, min_sources, w_rec, w_pri, w_sim) ==
    IF similar_chunks = <<>> THEN <<>>
    ELSE _ensure_source_diversity(
             _apply_hybrid_ranking(similar_chunks, w_rec, w_pri, w_sim),
             min_sources, top_k)

(***************************************************************************)
(* EducationalSynthesizer.  A model response is a sequence of tokens:      *)
(* "{" and "}" (braces), "fence" (a code fence with its optional json tag   *)
(* and surrounding whitespace), "txt" (prose), and two kinds of element     *)
(* of the "insights" array: "ok" (an insight object with all of title,     *)
(* explanation, practical_takeaway, source) and "bad" (an insight object   *)
(* missing one of them).  ApiError stands for client.messages.create       *)
(* raising.                                                                *)
(***************************************************************************)
ApiError == <<"api_error">>
ParseError == <<"parse_error">>
Items == {"ok", "bad"}

\* json.loads: the text is one object, "{" items "}".
JsonLoads(text) ==
    IF /\ Len(text) >= 2
       /\ text[1] = "{"
       /\ text[Len(text)] = "}"
       /\ \A i \in 2..(Len(text) - 1) : text[i] \in Items
    THEN SubSeq(text, 2, Len(text) - 1)
    ELSE ParseError

\* re.search(the fenced-block pattern, text, DOTALL): the leftmost
\* fence directly followed by "{", and from there the nearest "}" directly
\* followed by a fence.  The result is group(1), or <<>> when nothing matches.
FenceStarts(text) ==
    {i \in 1..Len(text) :
        /\ text[i] = "fence"
        /\ i + 1 <= Len(text)
        /\ text[i + 1] = "{"
        /\ \E j \in (i + 2)..Len(text) :
              text[j] = "}" /\ j + 1 <= Len(text) /\ text[j + 1] = "fence"}

SetMin(S) == CHOOSE x \in S : \A y \in S : x <= y
SetMax(S) == CHOOSE x \in S : \A y \in S : x >= y

FencedBlock(text) ==
    IF FenceStarts(text) = {} THEN <<>>
    ELSE LET i == SetMin(FenceStarts(text))
             j == SetMin({k \in (i + 2)..Len(text) :
                     text[k] = "}" /\ k + 1 <= Len(text) /\ text[k + 1] = "fence"})
         IN SubSeq(text, i + 1, j)

\* re.search(r"\{.*\}", text, DOTALL): from the first "{" to the last "}"
\* after it.
BraceSpan(text) ==
    LET opens == {i \in 1..Len(text) : text[i] = "{"}
    IN IF opens = {} THEN <<>>
       ELSE LET i == SetMin(opens)
                closes == {k \in (i + 1)..Len(text) : text[k] = "}"}
            IN IF closes = {} THEN <<>> ELSE SubSeq(text, i, SetMax(closes))

_extract_json(response_text) ==
    IF JsonLoads(response_text) # ParseError THEN JsonLoads(response_text)
    ELSE IF FencedBlock(response_text) # <<>>
            /\ JsonLoads(FencedBlock(response_text)) # ParseError
         THEN JsonLoads(FencedBlock(response_text))
    ELSE IF BraceSpan(response_text) # <<>>
            /\ JsonLoads(BraceSpan(response_text)) # ParseError
         THEN JsonLoads(BraceSpan(response_text))
    ELSE ParseError

\* Every item gets the id insight_{timestamp}_{i}; the items missing a
\* required field are skipped; the others get generated_at and the ids of
\* the first three retrieved chunks.  The timestamp t is shown as the serial
\* number of the synthesis call within its generate call.
RECURSIVE Enrich(_, _, _, _)
Enrich(items, i, retrieved_chunks, t) ==
    IF i > Len(items) THEN <<>>
    ELSE IF items[i] = "ok"
    THEN <<[id |-> <<t, i - 1>>,
            source_chunks |-> [k \in 1..Min(SourceChunkRefs, Len(retrieved_chunks)) |->
                                  retrieved_chunks[k].id]]>>
         \o Enrich(items, i + 1, retrieved_chunks, t)
    ELSE Enrich(items, i + 1, retrieved_chunks, t)

_validate_and_enrich_insights(insights_data, retrieved_chunks, t) ==
    Enrich(insights_data, 1, retrieved_chunks, t)

\* synthesize_insights without its except clause for a failed model call.
synthesize_insights_api_raises(retrieved_chunks, num_insights, stricter, outcome, t) ==
    IF retrieved_chunks = <<>>
    THEN [insights |-> <<>>, error |-> "No content to synthesize",
          raised |-> FALSE, model_called |-> FALSE]
    ELSE IF outcome = ApiError
    THEN [insights |-> <<>>, error |-> "api error",
          raised |-> TRUE, model_called |-> TRUE]
    ELSE IF _extract_json(outcome) = ParseError
    THEN [insights |-> <<>>, error |-> "Failed to parse JSON from Claude response",
          raised |-> FALSE, model_called |-> TRUE]
    ELSE [insights |-> _validate_and_enrich_insights(
                           _extract_json(outcome), retrieved_chunks, t),
          error |-> "none", raised |-> FALSE, model_called |-> TRUE]

\* synthesize_insights letting _extract_json's ValueError through.
synthesize_insights_parse_raises(retrieved_chunks, num_insights, stricter, outcome, t) ==
    IF retrieved_chunks = <<>>
    THEN [insights |-> <<>>, error |-> "No content to synthesize",
          raised |-> FALSE, model_called |-> FALSE]
    ELSE IF outcome = ApiError
    THEN [insights |-> <<>>, error |-> "api error",
          raised |-> FALSE, model_called |-> TRUE]
    ELSE IF _extract_json(outcome) = ParseError
    THEN [insights |-> <<>>, error |-> "Failed to parse JSON from Claude response",
          raised |-> TRUE, model_called |-> TRUE]
    ELSE [insights |-> _validate_and_enrich_insights(
                           _extract_json(outcome), retrieved_chunks, t),
          error |-> "none", raised |-> FALSE, model_called |-> TRUE]

\* synthesize_insights with the model's answer outcome (a response text or
\* ApiError); t is the serial number of the call.  raised tells whether the call raised to its
\* caller, model_called whether the generative model was invoked.
synthesize_insights(retrieved_chunks, num_insights, stricter, outcome, t) ==
    IF retrieved_chunks = <<>>
    THEN [insights |-> <<>>, error |-> "No content to synthesize",
          raised |-> FALSE, model_called |-> FALSE]
    ELSE IF outcome = ApiError
    THEN [insights |-> <<>>, error |-> "api error",
          raised |-> FALSE, model_called |-> TRUE]
    ELSE IF _extract_json(outcome) = ParseError
    THEN [insights |-> <<>>, error |-> "Failed to parse JSON from Claude response",
          raised |-> FALSE, model_called |-> TRUE]
    ELSE [insights |-> _validate_and_enrich_insights(
                           _extract_json(outcome), retrieved_chunks, t),
          error |-> "none", raised |-> FALSE, model_called |-> TRUE]

(***************************************************************************)
(* RAGASEvaluator.                                                         *)
(***************************************************************************)
EmptyScores == [empty |-> TRUE]

\* scores.get(key, 0)
ScoreGet(scores, key) == IF key \in DOMAIN scores THEN scores[key] ELSE 0

\* The score values of the model: 0.50, 0.69, 0.70, 0.90, 1.0 (and the
\* fallback 0.75).
ScoreLevels == {150, 207, 210, 270, 300}

\* The triples (f, p, r) of these values whose sum in binary floating point
\* is 2.0999999999999996 and not 2.1: 0.7 + 0.7 + 0.7, 0.5 + 0.9 + 0.7 and
\* 0.9 + 0.5 + 0.7.
RoundedDown == {<<210, 210, 210>>, <<150, 270, 210>>, <<270, 150, 210>>}

\* (f + p + r) / 3 in binary floating point.  For the triples of RoundedDown
\* the result is 0.6999999999999998, just below 0.70; it is shown here as
\* one unit below.  Every other triple of the model's score values has a
\* floating-point mean on the same side of 0.70 and 0.85 as the exact mean.
FloatMean(f, p, r) ==
    IF <<f, p, r>> \in RoundedDown THEN 209 ELSE (f + p + r) \div 3

\* A metric computation that raised, and a task that has not completed
\* (values outside the scores).
MetricError == 0 - 1
Pending == 0 - 2

\* A metric with the fallback 0.0 that _evaluate_all_metrics uses.
_evaluate_metric_zero(answer) ==
    IF answer = MetricError THEN 0 ELSE answer

\* _evaluate_faithfulness, _evaluate_context_precision, _evaluate_context_recall:
\* the score single_turn_ascore answered, or the fallback when it raised.
_evaluate_metric(answer) ==
    IF answer = MetricError THEN FallbackScore ELSE answer

\* evaluate_digest when the three metrics give f, p, r (a failed metric
\* gives FallbackScore).
evaluate_digest(f, p, r) ==
    [faithfulness |-> f, context_precision |-> p, context_recall |-> r,
     average |-> FloatMean(f, p, r)]

_placeholder_scores ==
    [faithfulness |-> FallbackScore, context_precision |-> FallbackScore,
     context_recall |-> FallbackScore, average |-> FallbackScore]

\* A gate that tests the average instead of the three metrics.
passes_quality_gate_by_average(scores) ==
    ScoreGet(scores, "average") >= min_score

passes_quality_gate(scores) ==
    /\ ScoreGet(scores, "faithfulness") >= min_score
    /\ ScoreGet(scores, "context_precision") >= min_score
    /\ ScoreGet(scores, "context_recall") >= min_score

\* apply_gate's test before a retry, with an off-by-one bound.
retry_allowed_inclusive(retry_count) == retry_count <= max_retries

\* apply_gate: "if retry_count < self.max_retries"
retry_allowed(retry_count) == retry_count < max_retries

(***************************************************************************)
(* DigestGenerator: the pure parts.                                        *)
(***************************************************************************)
\* A badge that follows the gate's per-metric test instead of the average.
_determine_quality_badge_by_metric(ragas_scores) ==
    IF ~passes_quality_gate(ragas_scores) THEN "warning"
    ELSE IF ScoreGet(ragas_scores, "average") >= HighBadgeMin THEN "high"
    ELSE "good"

_determine_quality_badge(ragas_scores) ==
    IF ScoreGet(ragas_scores, "average") >= HighBadgeMin THEN "high"
    ELSE IF ScoreGet(ragas_scores, "average") >= GoodBadgeMin THEN "good"
    ELSE "warning"

NoMetadata == [error |-> "none", num_insights |-> 0, num_chunks_used |-> 0,
               query |-> "none", learning_context |-> "none", sources |-> {},
               similarity_sum |-> 0]

_create_empty_digest(date, reason, t) ==
    [date |-> date,
     insights |-> <<>>,
     ragas_scores |-> EmptyScores,
     quality_badge |-> "warning",
     quality_passed |-> "absent",
     generated_at |-> t,
     metadata |-> [NoMetadata EXCEPT !.error = reason],
     cached |-> FALSE]

RECURSIVE SumSimilarity(_)
SumSimilarity(chunks) ==
    IF chunks = <<>> THEN 0
    ELSE Head(chunks).similarity + SumSimilarity(Tail(chunks))

\* The digest assembled after the quality gate (generate, step 6).
\* insights is the first synthesis' result, final_insights the gate's.
AssembleDigest(date, final_insights, ragas_scores, passed_gate, insights, chunks, query_text, learning_context, t) ==
    [date |-> date,
     insights |-> final_insights,
     ragas_scores |-> ragas_scores,
     quality_badge |-> _determine_quality_badge(ragas_scores),
     quality_passed |-> IF passed_gate THEN "true" ELSE "false",
     generated_at |-> t,
     metadata |-> [error |-> "none",
                   num_insights |-> Len(insights),
                   num_chunks_used |-> Len(chunks),
                   query |-> query_text,
                   learning_context |-> learning_context,
                   sources |-> SourcesOf(chunks),
                   similarity_sum |-> SumSimilarity(chunks)],
     cached |-> FALSE]

\* A row that carries the insights without the scores and metadata.
DigestRow_partial(user_id, digest, t) ==
    [user_id |-> user_id,
     digest_date |-> digest.date,
     insights |-> digest.insights,
     ragas_scores |-> EmptyScores,
     generated_at |-> digest.generated_at,
     cache_expires_at |-> t + CacheHours,
     metadata |-> NoMetadata]

\* The row _store_digest upserts at time t.
DigestRow(user_id, digest, t) ==
    [user_id |-> user_id,
     digest_date |-> digest.date,
     insights |-> digest.insights,
     ragas_scores |-> digest.ragas_scores,
     generated_at |-> digest.generated_at,
     cache_expires_at |-> t + CacheHours,
     metadata |-> digest.metadata]

\* The digest store's keyed upsert: the row replaces the row of the same
\* (user_id, digest_date), whole.
Upsert(rows, row) ==
    {r \in rows : ~(r.user_id = row.user_id /\ r.digest_date = row.digest_date)}
    \cup {row}

\* select("*").eq(user_id).eq(digest_date)
RowsFor(rows, user_id, date) ==
    {r \in rows : r.user_id = user_id /\ r.digest_date = date}

NoDigest == [none |-> TRUE]

\* An expiry test that never fires.
cache_expired_never(t, data) == FALSE

\* A timestamp column that holds no value.
NoTime == 0 - 1

\* _get_cached_digest: "if cache_expires:" and then
\* "if datetime.now() > expires_dt"
cache_expired(t, data) == data.cache_expires_at # NoTime /\ t > data.cache_expires_at

\* A reconstruction that leaves the stored metadata out.
reconstruct_digest_without_metadata(data) ==
    [date |-> data.digest_date,
     insights |-> data.insights,
     ragas_scores |-> data.ragas_scores,
     quality_badge |-> _determine_quality_badge(data.ragas_scores),
     quality_passed |-> "absent",
     generated_at |-> data.generated_at,
     metadata |-> NoMetadata,
     cached |-> TRUE]

\* A reconstruction with a fixed badge.
reconstruct_digest_fixed_badge(data) ==
    [date |-> data.digest_date,
     insights |-> data.insights,
     ragas_scores |-> data.ragas_scores,
     quality_badge |-> "good",
     quality_passed |-> "absent",
     generated_at |-> data.generated_at,
     metadata |-> data.metadata,
     cached |-> TRUE]

\* _get_cached_digest: the digest reconstructed from the stored row.
reconstruct_digest(data) ==
    [date |-> data.digest_date,
     insights |-> data.insights,
     ragas_scores |-> data.ragas_scores,
     quality_badge |-> _determine_quality_badge(data.ragas_scores),
     quality_passed |-> "absent",
     generated_at |-> data.generated_at,
     metadata |-> data.metadata,
     cached |-> TRUE]

\* _get_cached_digest with ">=" in the expiry test.
_get_cached_digest_expiring_early(rows, user_id, date, t, read_ok) ==
    IF ~read_ok \/ Cardinality(RowsFor(rows, user_id, date)) # 1 THEN NoDigest
    ELSE LET data == CHOOSE r \in RowsFor(rows, user_id, date) : TRUE
         IN IF t >= data.cache_expires_at THEN NoDigest
            ELSE [date |-> data.digest_date,
                  insights |-> data.insights,
                  ragas_scores |-> data.ragas_scores,
                  quality_badge |-> _determine_quality_badge(data.ragas_scores),
                  quality_passed |-> "absent",
                  generated_at |-> data.generated_at,
                  metadata |-> data.metadata,
                  cached |-> TRUE]

\* _get_cached_digest at time t: .single() raises unless exactly one row
\* matches, a failed read raises too, and every exception gives None.
_get_cached_digest(rows, user_id, date, t, read_ok) ==
    IF ~read_ok \/ Cardinality(RowsFor(rows, user_id, date)) # 1 THEN NoDigest
    ELSE LET data == CHOOSE r \in RowsFor(rows, user_id, date) : TRUE
         IN IF cache_expired(t, data) THEN NoDigest
            ELSE reconstruct_digest(data)

(***************************************************************************)
(* The environment of the model: callers, keys, arguments, and the answers *)
(* the external services can give.                                         *)
(***************************************************************************)
Callers == {"c1", "c2"}
Dates == {"d1"}
DefaultUser == "u1"

\* Answers of the generative model.
Responses ==
    { <<"{", "ok", "}">>,
      <<"{", "ok", "ok", "ok", "}">>,
      <<"{", "ok", "bad", "}">>,
      <<"{", "bad", "}">>,
      <<"txt", "fence", "{", "ok", "}", "fence">>,
      <<"fence", "txt", "{", "ok", "}", "fence", "txt">>,
      <<"fence", "{", "txt", "}", "fence">>,
      <<"txt">>,
      ApiError }

\* Answers of the three metric computations.
MetricTriples ==
    { <<270, 270, 270>>, <<207, 300, 300>>, <<150, 150, 150>> }

Chunk(id, source_id, similarity, days_old, source_priority) ==
    [id |-> id, source_id |-> source_id, similarity |-> similarity,
     days_old |-> days_old, source_priority |-> source_priority]

\* Answers of the vector index (match_embeddings), in the order it gives.
IndexAnswers ==
    { <<>>,
      <<Chunk("k2", "s1", 75, 40, 1), Chunk("k1", "s1", 90, 0, 3),
        Chunk("k3", "s2", 80, 10, 5), Chunk("k4", "s1", 85, 2, 3)>> }

RetrievalFailures == {"embedding service error", "vector index error"}

NoContentReason == "No relevant content found"
ConfigReason ==
    "Anthropic API key not configured. Please add ANTHROPIC_API_KEY to your Claude Desktop config."
NoInsightsReason == "Failed to generate insights"

\* One caller, every answer of the environment, a short clock.
SequentialWorld ==
    [callers |-> {"c1"},
     max_insights |-> {2, 12},
     responses |-> Responses,
     metrics |-> MetricTriples,
     contexts |-> {"stored"},
     max_time |-> TickHours]

\* One caller, few answers of the environment, a clock that runs past the
\* cache window.
CacheWorld ==
    [callers |-> {"c1"},
     max_insights |-> {2},
     responses |-> {<<"{", "ok", "}">>, <<"txt">>},
     metrics |-> {<<270, 270, 270>>, <<207, 300, 300>>},
     contexts |-> {"stored", "default"},
     max_time |-> MaxTime]

\* Two callers racing on one key, few answers of the environment, a short
\* clock.
ConcurrentWorld ==
    [callers |-> Callers,
     max_insights |-> {2},
     responses |-> {<<"{", "ok", "}">>, <<"txt">>},
     metrics |-> {<<207, 300, 300>>},
     contexts |-> {"default"},
     max_time |-> TickHours]

VARIABLES
    world,          \* the callers and the environment's answers of this run
    now,            \* the clock, in hours
    digests,        \* the rows of generated_digests
    use_anthropic,  \* whether a synthesis backend is configured
    pc,             \* where each caller's generate call stands
    args,           \* the arguments of each caller's generate call
    chunks,         \* generate's chunks
    context,        \* generate's learning_context and query_text
    insights,       \* generate's insights (the first synthesis)
    gate,           \* apply_gate's insights, scores, retry_count and result
    synth_calls,    \* the synthesize_insights calls of this generate call
    ret,            \* what the last generate call of each caller returned
    written,        \* per date, the digest returned by the last call that stored
    probe           \* inputs and result of the retrieval functions on their own

vars == <<world, now, digests, use_anthropic, pc, args, chunks, context, insights,
          gate, synth_calls, ret, written, probe>>

\* Results of evaluate_digest: computed scores, or the placeholder scores
\* when RAGAS is unavailable or the evaluation raises.
EvalOutcomes ==
    {evaluate_digest(m[1], m[2], m[3]) : m \in world.metrics} \cup {_placeholder_scores}

NoArgs == [user_id |-> "none", date |-> "none", max_insights |-> 0,
           force_refresh |-> FALSE]
NoGate == [insights |-> <<>>, evaluated |-> <<>>, scores |-> EmptyScores,
           retry_count |-> 0, passed |-> "absent"]
NoRet == [kind |-> "none"]
NoProbe == [phase |-> "off"]

\* No generate call has started.
InitProgram(w) ==
    /\ world = w
    /\ now = 0
    /\ digests = {}
    /\ use_anthropic \in BOOLEAN
    /\ pc = [c \in Callers |-> "idle"]
    /\ args = [c \in Callers |-> NoArgs]
    /\ chunks = [c \in Callers |-> <<>>]
    /\ context = [c \in Callers |-> "none"]
    /\ insights = [c \in Callers |-> <<>>]
    /\ gate = [c \in Callers |-> NoGate]
    /\ synth_calls = [c \in Callers |-> <<>>]
    /\ ret = [c \in Callers |-> NoRet]
    /\ written = [d \in Dates |-> NoDigest]

InitIn(w) == InitProgram(w) /\ probe = NoProbe

Init == InitIn(SequentialWorld)

\* The locals of caller c's generate call after a step.
Locals(c, new_chunks, new_context, new_insights, new_calls) ==
    /\ chunks' = [chunks EXCEPT ![c] = new_chunks]
    /\ context' = [context EXCEPT ![c] = new_context]
    /\ insights' = [insights EXCEPT ![c] = new_insights]
    /\ synth_calls' = [synth_calls EXCEPT ![c] = new_calls]

\* generate returns digest to its caller; its locals are gone.
Returns(c, digest) ==
    /\ pc' = [pc EXCEPT ![c] = "returned"]
    /\ ret' = [ret EXCEPT ![c] = [kind |-> "digest", digest |-> digest, at |-> now]]
    /\ Locals(c, <<>>, "none", <<>>, <<>>)

\* generate raises to its caller.
Raises(c, error) ==
    /\ pc' = [pc EXCEPT ![c] = "returned"]
    /\ ret' = [ret EXCEPT ![c] = [kind |-> "raised", error |-> error, at |-> now]]
    /\ Locals(c, <<>>, "none", <<>>, <<>>)

\* generate, step 1: the call starts and looks the cache up.
\* read_ok tells whether the digest store answers the lookup.
CallWith(c, date, max_insights, force_refresh, read_ok) ==
    LET cached_digest == _get_cached_digest(digests, DefaultUser, date, now, read_ok)
    IN /\ c \in world.callers
       /\ pc[c] \in {"idle", "returned"}
       /\ args' = [args EXCEPT ![c] =
              [user_id |-> DefaultUser, date |-> date,
               max_insights |-> max_insights, force_refresh |-> force_refresh]]
       /\ gate' = [gate EXCEPT ![c] = NoGate]
       /\ IF ~force_refresh /\ cached_digest # NoDigest
          THEN Returns(c, cached_digest)
          ELSE /\ pc' = [pc EXCEPT ![c] = "retrieve"]
               /\ ret' = [ret EXCEPT ![c] = NoRet]
               /\ Locals(c, <<>>, "none", <<>>, <<>>)
       /\ UNCHANGED <<world, now, digests, use_anthropic, written, probe>>

Call(c) ==
    \E date \in Dates, max_insights \in world.max_insights,
       force_refresh \in BOOLEAN, read_ok \in BOOLEAN :
        CallWith(c, date, max_insights, force_refresh, read_ok)

\* generate, steps 2 and 3 when the embedding service or the vector index
\* raises: nothing in generate catches it.
RetrieveFails(c) ==
    /\ pc[c] = "retrieve"
    /\ \E error \in RetrievalFailures : Raises(c, error)
    /\ UNCHANGED <<world, now, digests, use_anthropic, args, gate, written, probe>>

\* RetrieveWith without the test for a configured synthesizer.
RetrieveWith_unconfigured(c, learning_context, answer) ==
    /\ pc[c] = "retrieve"
    /\  LET found == retrieve(answer, DefaultTopK, DefaultMinSources,
                               recency_weight, priority_weight, similarity_weight)
         IN IF found = <<>>
            THEN Returns(c, _create_empty_digest(args[c].date, NoContentReason, now))
            ELSE /\ pc' = [pc EXCEPT ![c] = "synthesize"]
                 /\ Locals(c, found, learning_context, <<>>, <<>>)
                 /\ UNCHANGED ret
    /\ UNCHANGED <<world, now, digests, use_anthropic, args, gate, written, probe>>

\* Retrieve with the empty digests stored like the full ones.
Retrieve_storing(c) ==
    /\ pc[c] = "retrieve"
    /\ \E learning_context \in world.contexts, answer \in IndexAnswers :
         LET found == retrieve(answer, DefaultTopK, DefaultMinSources,
                               recency_weight, priority_weight, similarity_weight)
             empty == _create_empty_digest(args[c].date,
                          IF found = <<>> THEN NoContentReason ELSE ConfigReason, now)
         IN IF found = <<>> \/ ~use_anthropic
            THEN /\ Returns(c, empty)
                 /\ digests' = Upsert(digests, DigestRow(args[c].user_id, empty, now))
                 /\ written' = [written EXCEPT ![args[c].date] = empty]
            ELSE /\ pc' = [pc EXCEPT ![c] = "synthesize"]
                 /\ Locals(c, found, learning_context, <<>>, <<>>)
                 /\ UNCHANGED <<ret, digests, written>>
    /\ UNCHANGED <<world, now, use_anthropic, args, gate, probe>>

\* generate, steps 2 to 4 (before synthesis): build the query, retrieve, and
\* check that a synthesizer exists.
RetrieveWith(c, learning_context, answer) ==
    /\ pc[c] = "retrieve"
    /\  LET found == retrieve(answer, DefaultTopK, DefaultMinSources,
                               recency_weight, priority_weight, similarity_weight)
         IN IF found = <<>>
            THEN Returns(c, _create_empty_digest(args[c].date, NoContentReason, now))
            ELSE IF ~use_anthropic
            THEN Returns(c, _create_empty_digest(args[c].date, ConfigReason, now))
            ELSE /\ pc' = [pc EXCEPT ![c] = "synthesize"]
                 /\ Locals(c, found, learning_context, <<>>, <<>>)
                 /\ UNCHANGED ret
    /\ UNCHANGED <<world, now, digests, use_anthropic, args, gate, written, probe>>

Retrieve(c) ==
    \E learning_context \in world.contexts, answer \in IndexAnswers :
        RetrieveWith(c, learning_context, answer)

\* A system prompt that is the strict variant whatever the flag.
_build_system_prompt_always_strict(stricter) == "strict"

\* _build_system_prompt: the base prompt, with the strict guidelines
\* appended when stricter is set.
_build_system_prompt(stricter) == IF stricter THEN "strict" ELSE "default"

SynthCall(num_insights, stricter, retrieved_chunks) ==
    [num_insights |-> num_insights, stricter |-> stricter,
     retrieved_chunks |-> retrieved_chunks,
     system_prompt |-> _build_system_prompt(stricter)]

\* SynthesizeWith without the test for an empty list of insights.
SynthesizeWith_gating_empty(c, outcome) ==
    /\ pc[c] = "synthesize"
    /\  LET synthesis_result ==
                 synthesize_insights(chunks[c], Min(args[c].max_insights, InsightCap),
                                     FALSE, outcome, Len(synth_calls[c]) + 1)
         IN IF synthesis_result.raised
            THEN /\ Raises(c, synthesis_result.error)
                 /\ UNCHANGED gate
            ELSE /\ pc' = [pc EXCEPT ![c] = "evaluate"]
                 /\ Locals(c, chunks[c], context[c], synthesis_result.insights,
                           Append(synth_calls[c],
                                  SynthCall(Min(args[c].max_insights, InsightCap),
                                            FALSE, chunks[c])))
                 /\ gate' = [gate EXCEPT ![c] =
                       [NoGate EXCEPT !.insights = synthesis_result.insights]]
                 /\ UNCHANGED ret
    /\ UNCHANGED <<world, now, digests, use_anthropic, args, written, probe>>

\* generate, step 4: the first synthesis.
SynthesizeWith(c, outcome) ==
    /\ pc[c] = "synthesize"
    /\  LET synthesis_result ==
                 synthesize_insights(chunks[c], Min(args[c].max_insights, InsightCap),
                                     FALSE, outcome, Len(synth_calls[c]) + 1)
         IN IF synthesis_result.raised
            THEN /\ Raises(c, synthesis_result.error)
                 /\ UNCHANGED gate
            ELSE IF synthesis_result.insights = <<>>
            THEN /\ Returns(c, _create_empty_digest(args[c].date, NoInsightsReason, now))
                 /\ UNCHANGED gate
            ELSE /\ pc' = [pc EXCEPT ![c] = "evaluate"]
                 /\ Locals(c, chunks[c], context[c], synthesis_result.insights,
                           Append(synth_calls[c],
                                  SynthCall(Min(args[c].max_insights, InsightCap),
                                            FALSE, chunks[c])))
                 /\ gate' = [gate EXCEPT ![c] =
                       [NoGate EXCEPT !.insights = synthesis_result.insights]]
                 /\ UNCHANGED ret
    /\ UNCHANGED <<world, now, digests, use_anthropic, args, written, probe>>

Synthesize(c) == \E outcome \in world.responses : SynthesizeWith(c, outcome)

\* Deliver with _store_digest letting the store's exception through.
Deliver_store_raises(c, final_insights, ragas_scores, passed_gate, store_ok) ==
    LET digest == AssembleDigest(args[c].date, final_insights, ragas_scores,
                                 passed_gate, insights[c], chunks[c],
                                 context[c], context[c], now)
    IN IF store_ok
       THEN /\ Returns(c, digest)
            /\ digests' = Upsert(digests, DigestRow(args[c].user_id, digest, now))
            /\ written' = [written EXCEPT ![args[c].date] = digest]
       ELSE /\ Raises(c, "store error")
            /\ UNCHANGED <<digests, written>>

\* generate, steps 6 and 7 after apply_gate returned (final_insights,
\* ragas_scores, passed_gate): assemble, store (the store may fail), return.
Deliver(c, final_insights, ragas_scores, passed_gate, store_ok) ==
    LET digest == AssembleDigest(args[c].date, final_insights, ragas_scores,
                                 passed_gate, insights[c], chunks[c],
                                 context[c], context[c], now)
    IN /\ Returns(c, digest)
       /\ IF store_ok
          THEN /\ digests' = Upsert(digests, DigestRow(args[c].user_id, digest, now))
               /\ written' = [written EXCEPT ![args[c].date] = digest]
          ELSE UNCHANGED <<digests, written>>

\* EvaluateWith returning the insights of the first synthesis instead of
\* the insights it evaluated.
EvaluateWith_first_insights(c, scores, store_ok) ==
    /\ pc[c] = "evaluate"
    /\  IF passes_quality_gate(scores)
         THEN /\ gate' = [gate EXCEPT ![c].scores = scores, ![c].passed = "true",
                                      ![c].evaluated = gate[c].insights]
              /\ Deliver(c, insights[c], scores, TRUE, store_ok)
         ELSE IF retry_allowed(gate[c].retry_count)
         THEN /\ gate' = [gate EXCEPT ![c].scores = scores,
                                      ![c].evaluated = gate[c].insights]
              /\ pc' = [pc EXCEPT ![c] = "retry"]
              /\ UNCHANGED <<ret, digests, written, chunks, context, insights,
                             synth_calls>>
         ELSE /\ gate' = [gate EXCEPT ![c].scores = scores, ![c].passed = "false",
                                      ![c].evaluated = gate[c].insights]
              /\ Deliver(c, insights[c], scores, FALSE, store_ok)
    /\ UNCHANGED <<world, now, use_anthropic, args, probe>>

\* apply_gate: one evaluation of the current insights (evaluated records
\* the insights handed to evaluate_digest), and what follows it.
EvaluateWith(c, scores, store_ok) ==
    /\ pc[c] = "evaluate"
    /\  IF passes_quality_gate(scores)
         THEN /\ gate' = [gate EXCEPT ![c].scores = scores, ![c].passed = "true",
                                      ![c].evaluated = gate[c].insights]
              /\ Deliver(c, gate[c].insights, scores, TRUE, store_ok)
         ELSE IF retry_allowed(gate[c].retry_count)
         THEN /\ gate' = [gate EXCEPT ![c].scores = scores,
                                      ![c].evaluated = gate[c].insights]
              /\ pc' = [pc EXCEPT ![c] = "retry"]
              /\ UNCHANGED <<ret, digests, written, chunks, context, insights,
                             synth_calls>>
         ELSE /\ gate' = [gate EXCEPT ![c].scores = scores, ![c].passed = "false",
                                      ![c].evaluated = gate[c].insights]
              /\ Deliver(c, gate[c].insights, scores, FALSE, store_ok)
    /\ UNCHANGED <<world, now, use_anthropic, args, probe>>

Evaluate(c) ==
    \E scores \in EvalOutcomes, store_ok \in BOOLEAN : EvaluateWith(c, scores, store_ok)

\* apply_gate: the retry synthesis, then the recursive call with
\* retry_count + 1.
RetrySynthesizeWith(c, outcome) ==
    /\ pc[c] = "retry"
    /\  LET retry_result ==
                 synthesize_insights(chunks[c], Len(gate[c].insights), TRUE,
                                     outcome, Len(synth_calls[c]) + 1)
         IN IF retry_result.raised
            THEN /\ Raises(c, retry_result.error)
                 /\ UNCHANGED gate
            ELSE /\ Locals(c, chunks[c], context[c], insights[c],
                           Append(synth_calls[c],
                                  SynthCall(Len(gate[c].insights), TRUE, chunks[c])))
                 /\ gate' = [gate EXCEPT ![c].insights = retry_result.insights,
                                         ![c].retry_count = @ + 1]
                 /\ pc' = [pc EXCEPT ![c] = "evaluate"]
                 /\ UNCHANGED ret
    /\ UNCHANGED <<world, now, digests, use_anthropic, args, written, probe>>

RetrySynthesize(c) ==
    \E outcome \in world.responses : RetrySynthesizeWith(c, outcome)

Tick ==
    /\ now + TickHours <= world.max_time
    /\ now' = now + TickHours
    /\ UNCHANGED <<world, digests, use_anthropic, pc, args, chunks, context,
                   insights, gate, synth_calls, ret, written, probe>>

Next ==
    \/ \E c \in Callers : Call(c)
    \/ \E c \in Callers : RetrieveFails(c)
    \/ \E c \in Callers : Retrieve(c)
    \/ \E c \in Callers : Synthesize(c)
    \/ \E c \in Callers : Evaluate(c)
    \/ \E c \in Callers : RetrySynthesize(c)
    \/ Tick

Spec == Init /\ [][Next]_vars

CacheSpec == InitIn(CacheWorld) /\ [][Next]_vars

ConcurrentSpec == InitIn(ConcurrentWorld) /\ [][Next]_vars

\* Every generate call that is inside the quality gate keeps running.
GateFairSpec ==
    Spec /\ \A c \in Callers : WF_vars(Evaluate(c)) /\ WF_vars(RetrySynthesize(c))

(***************************************************************************)
(* The retrieval functions on their own: every candidate list of at most   *)
(* MaxCand chunks, every top_k up to MaxTopK and min_sources up to         *)
(* MaxMinSources, ranked and then diversified.                             *)
(***************************************************************************)
Sources == {"s1", "s2", "s3"}

\* [similarity, days_old, source_priority] of a candidate.  days_old is
\* (now - published_at).days with now the local time and published_at the
\* feed's date: it is negative for a date ahead of the local clock.
Profiles == { <<90, 0, 3>>, <<75, 40, 5>>, <<90, 0 - 1, 3>> }

RECURSIVE SeqsUpTo(_, _)
SeqsUpTo(S, n) ==
    IF n = 0 THEN {<<>>}
    ELSE SeqsUpTo(S, n - 1)
         \cup {Append(q, x) : q \in {r \in SeqsUpTo(S, n - 1) : Len(r) = n - 1}, x \in S}

Candidates ==
    {[i \in 1..Len(q) |-> Chunk(i, q[i][1], q[i][2][1], q[i][2][2], q[i][2][3])] :
        q \in SeqsUpTo(Sources \X Profiles, MaxCand)}

NoWorld == [callers |-> {}, max_insights |-> {}, responses |-> {}, metrics |-> {},
            contexts |-> {}, max_time |-> 0]

InitRank ==
    /\ InitProgram(NoWorld)
    /\ use_anthropic = TRUE
    /\ \E similar_chunks \in Candidates, top_k \in 1..MaxTopK,
          min_sources \in 1..MaxMinSources :
         probe = [phase |-> "found", similar_chunks |-> similar_chunks,
                  top_k |-> top_k, min_sources |-> min_sources]

ProgramUnchanged ==
    UNCHANGED <<world, now, digests, use_anthropic, pc, args, chunks, context,
                insights, gate, synth_calls, ret, written>>

\* retrieve, step 3
RankProbe ==
    /\ probe.phase = "found"
    /\ probe' = [phase |-> "ranked", similar_chunks |-> probe.similar_chunks,
                 top_k |-> probe.top_k, min_sources |-> probe.min_sources,
                 ranked_chunks |-> _apply_hybrid_ranking(probe.similar_chunks,
                     recency_weight, priority_weight, similarity_weight)]
    /\ ProgramUnchanged

\* retrieve, step 4
DiversifyProbe ==
    /\ probe.phase = "ranked"
    /\ probe' = [phase |-> "diverse", similar_chunks |-> probe.similar_chunks,
                 top_k |-> probe.top_k, min_sources |-> probe.min_sources,
                 ranked_chunks |-> probe.ranked_chunks,
                 diverse_chunks |-> _ensure_source_diversity(probe.ranked_chunks,
                     probe.min_sources, probe.top_k)]
    /\ ProgramUnchanged

NextRank == RankProbe \/ DiversifyProbe

RankSpec == InitRank /\ [][NextRank]_vars

(***************************************************************************)
(* synthesize_insights on its own: every response text of at most          *)
(* MaxTokens tokens, and the failure of the model call.                    *)
(***************************************************************************)
Tokens == {"{", "}", "fence", "txt", "ok", "bad"}

ResponseTexts == SeqsUpTo(Tokens, MaxTokens) \cup {ApiError}

InitSynth ==
    /\ InitProgram(NoWorld)
    /\ use_anthropic = TRUE
    /\ \E outcome \in ResponseTexts, stricter \in BOOLEAN,
          retrieved_chunks \in {<<>>, <<Chunk("k1", "s1", 90, 0, 3)>>} :
         probe = [phase |-> "asked", outcome |-> outcome, stricter |-> stricter,
                  retrieved_chunks |-> retrieved_chunks]

SynthProbe ==
    /\ probe.phase = "asked"
    /\ probe' = [phase |-> "answered", outcome |-> probe.outcome,
                 stricter |-> probe.stricter,
                 retrieved_chunks |-> probe.retrieved_chunks,
                 result |-> synthesize_insights(probe.retrieved_chunks, 2,
                                                probe.stricter, probe.outcome, 1)]
    /\ ProgramUnchanged

NextSynth == SynthProbe

SynthSpec == InitSynth /\ [][NextSynth]_vars

(***************************************************************************)
(* Properties.                                                             *)
(***************************************************************************)
Returned(c) == pc[c] = "returned"
ReturnedDigest(c) == pc[c] = "returned" /\ ret[c].kind = "digest"
Generated(c) == ReturnedDigest(c) /\ ~ret[c].digest.cached
InGate(c) == pc[c] \in {"evaluate", "retry"}
Exhausted(c) == pc[c] = "returned" /\ gate[c].passed = "false"

\* C1: every digest generate returns has at most min(max_insights, 10)
\* insights, whatever the model answered and whatever the store held.
C1_InsightCount ==
    \A c \in Callers :
        ReturnedDigest(c) =>
            Len(ret[c].digest.insights) <= Min(args[c].max_insights, InsightCap)

\* C4 as stated: generate never raises to its caller; every failure ends in
\* a digest.
C4_NeverRaises ==
    \A c \in Callers : Returned(c) => ret[c].kind = "digest"

C4_OnlyRetrievalRaises ==
    \A c \in Callers :
        (Returned(c) /\ ret[c].kind = "raised") => ret[c].error \in RetrievalFailures

C4_ModelFailureStep ==
    \A c \in Callers :
        /\ SynthesizeWith(c, ApiError) =>
               /\ ret'[c].kind = "digest"
               /\ ret'[c].digest.insights = <<>>
               /\ ret'[c].digest.quality_badge = "warning"
               /\ ret'[c].digest.metadata.error = NoInsightsReason
        /\ RetrySynthesizeWith(c, ApiError) =>
               /\ pc'[c] = "evaluate"
               /\ gate'[c].insights = <<>>

\* C4, amended: generate raises exactly when the embedding service or the
\* vector index fails; a failed call of the generative model never raises:
\* in the first synthesis it gives the empty digest "Failed to generate
\* insights", in a retry it leaves the gate with no insights.
C4_FailureOutcomes == [](C4_OnlyRetrievalRaises) /\ [][C4_ModelFailureStep]_vars

C4_Witness ==
    \E c \in Callers :
        Returned(c) /\ ret[c].kind = "raised" /\ ret[c].error = "vector index error"

C5_Bound ==
    \A c \in Callers :
        /\ Len(synth_calls[c]) <= max_retries + 1
        /\ gate[c].retry_count <= max_retries
        /\ InGate(c) => Len(synth_calls[c]) = gate[c].retry_count + 1
        /\ gate[c].passed = "false" => gate[c].retry_count = max_retries

C5_LastEvaluation ==
    \A c \in Callers :
        (pc[c] = "evaluate" /\ pc'[c] = "returned"
         /\ ~passes_quality_gate(gate'[c].scores)) =>
            /\ gate'[c].passed = "false"
            /\ gate'[c].retry_count = max_retries

\* C5: within one generate call the synthesizer is invoked at most
\* max_retries + 1 times, the quality gate always comes to an end, and a
\* gate that ends on failing scores reports passed = false with the retries
\* used up.
C5_GateBounded ==
    /\ [](C5_Bound)
    /\ [][C5_LastEvaluation]_vars
    /\ \A c \in Callers : InGate(c) ~> Returned(c)

C5_Witness ==
    \E c \in Callers :
        pc[c] = "evaluate" /\ Len(synth_calls[c]) = max_retries + 1
        /\ gate[c].retry_count = max_retries

\* C6 as stated: a digest delivered after the gate is exhausted has
\* quality_passed = false and the warning badge.
C6_ExhaustedWarns ==
    \A c \in Callers :
        Exhausted(c) =>
            /\ ret[c].digest.quality_passed = "false"
            /\ ret[c].digest.quality_badge = "warning"

\* C6, amended: a digest delivered after the gate is exhausted has
\* quality_passed = false; its badge follows the average score alone
\* (warning below 0.70, high from 0.85, good in between).
C6_ExhaustedBadge ==
    \A c \in Callers :
        Exhausted(c) =>
            LET average == ret[c].digest.ragas_scores.average
            IN /\ ret[c].digest.quality_passed = "false"
               /\ ret[c].digest.ragas_scores = gate[c].scores
               /\ ret[c].digest.quality_badge = "warning" <=> average < GoodBadgeMin
               /\ ret[c].digest.quality_badge = "high" <=> average >= HighBadgeMin
               /\ ret[c].digest.quality_badge \in {"warning", "good", "high"}

C6_Witness ==
    \E c \in Callers :
        Exhausted(c) /\ ret[c].digest.quality_badge = "high"
        /\ ret[c].digest.quality_passed = "false"

C9_RetryArguments ==
    \A c \in Callers :
        \A i \in 2..Len(synth_calls[c]) :
            /\ synth_calls[c][i].stricter
            /\ synth_calls[c][i].retrieved_chunks = synth_calls[c][1].retrieved_chunks
            /\ synth_calls[c][i].num_insights = synth_calls[c][1].num_insights


\* The content of a digest that a cache hit reproduces.
SameContent(a, b) ==
    /\ a.date = b.date
    /\ a.insights = b.insights
    /\ a.ragas_scores = b.ragas_scores
    /\ a.quality_badge = b.quality_badge
    /\ a.generated_at = b.generated_at
    /\ a.metadata = b.metadata

\* The digest is the one row of its key in the store.
IsStored(digest) ==
    \E r \in digests :
        /\ RowsFor(digests, DefaultUser, digest.date) = {r}
        /\ r.insights = digest.insights
        /\ r.ragas_scores = digest.ragas_scores
        /\ r.generated_at = digest.generated_at
        /\ r.metadata = digest.metadata

C2_RepeatStep ==
    \A c \in Callers, date \in Dates, m \in world.max_insights, read_ok \in BOOLEAN :
        (/\ ReturnedDigest(c)
         /\ ~args[c].force_refresh
         /\ args[c].date = date
         /\ now - ret[c].at <= CacheHours
         /\ CallWith(c, date, m, FALSE, read_ok))
            => /\ pc'[c] = "returned"
               /\ ret'[c].kind = "digest"
               /\ ret'[c].digest.cached
               /\ SameContent(ret'[c].digest, ret[c].digest)

C2_StoredRepeatStep ==
    \A c \in Callers, date \in Dates, m \in world.max_insights :
        (/\ ReturnedDigest(c)
         /\ ~args[c].force_refresh
         /\ args[c].date = date
         /\ IsStored(ret[c].digest)
         /\ now <= ret[c].digest.generated_at + CacheHours
         /\ CallWith(c, date, m, FALSE, TRUE))
            => /\ pc'[c] = "returned"
               /\ ret'[c].kind = "digest"
               /\ ret'[c].digest.cached
               /\ SameContent(ret'[c].digest, ret[c].digest)

NoContent(c) ==
    Generated(c) /\ ret[c].digest.metadata.error = NoContentReason

C3_EmptyShape ==
    /\ \A c \in Callers :
          NoContent(c) =>
              /\ ret[c].digest.insights = <<>>
              /\ ret[c].digest.quality_badge = "warning"
              /\ ret[c].digest.ragas_scores = EmptyScores
    /\ \A r \in digests : r.metadata.error = "none"

C3_EmptyStep ==
    \A c \in Callers :
        /\ (pc[c] = "retrieve" /\ pc'[c] = "returned" /\ ret'[c].kind = "digest")
               => digests' = digests /\ ret'[c].digest.insights = <<>>
        /\ \A date \in Dates, m \in world.max_insights, read_ok \in BOOLEAN :
               (/\ NoContent(c)
                /\ args[c].date = date
                /\ RowsFor(digests, DefaultUser, date) = {}
                /\ CallWith(c, date, m, FALSE, read_ok))
                   => pc'[c] = "retrieve"

EnoughSources ==
    /\ probe.phase = "diverse"
    /\ Cardinality(SourcesOf(probe.similar_chunks)) >= probe.min_sources

C10_OneWholeRow ==
    \A d \in Dates :
        /\ Cardinality(RowsFor(digests, DefaultUser, d)) <= 1
        /\ \A r \in RowsFor(digests, DefaultUser, d) :
              /\ written[d] # NoDigest
              /\ r.insights = written[d].insights
              /\ r.ragas_scores = written[d].ragas_scores
              /\ r.generated_at = written[d].generated_at
              /\ r.metadata = written[d].metadata
              /\ r.cache_expires_at = written[d].generated_at + CacheHours

C10_Witness ==
    /\ \A c \in Callers : Generated(c) /\ ret[c].digest.insights # <<>>
    /\ ret["c1"].digest # ret["c2"].digest
    /\ \E c \in Callers : IsStored(ret[c].digest) /\ written["d1"] = ret[c].digest
    /\ \E c \in Callers : ~IsStored(ret[c].digest)


(***************************************************************************)
(* evaluate_digest on its own: the three metric computations as concurrent *)
(* tasks that are joined, then the gate predicate and the badge on the     *)
(* scores.                                                                 *)
(***************************************************************************)
Metrics == <<"faithfulness", "context_precision", "context_recall">>

InitEval ==
    /\ InitProgram(NoWorld)
    /\ use_anthropic = TRUE
    /\ \E ragas_available \in BOOLEAN, sample_ok \in BOOLEAN,
          answers \in [1..3 -> ScoreLevels \cup {MetricError}] :
         probe = [phase |-> "evaluating", ragas_available |-> ragas_available,
                  sample_ok |-> sample_ok, answers |-> answers,
                  results |-> [i \in 1..3 |-> Pending]]

\* One of the three tasks of asyncio.gather completes.
MetricProbe(i) ==
    /\ probe.phase = "evaluating"
    /\ probe.ragas_available /\ probe.sample_ok
    /\ probe.results[i] = Pending
    /\ probe' = [probe EXCEPT !.results[i] = _evaluate_metric(probe.answers[i])]
    /\ ProgramUnchanged

Evaluated(scores) ==
    [phase |-> "evaluated", ragas_available |-> probe.ragas_available,
     sample_ok |-> probe.sample_ok, answers |-> probe.answers,
     results |-> probe.results, scores |-> scores]

\* evaluate_digest returns: the placeholder scores when RAGAS is missing or
\* the sample cannot be built, else the joined scores with their average.
JoinProbe ==
    /\ probe.phase = "evaluating"
    /\ IF ~probe.ragas_available \/ ~probe.sample_ok
       THEN probe' = Evaluated(_placeholder_scores)
       ELSE /\ \A i \in 1..3 : probe.results[i] # Pending
            /\ probe' = Evaluated(evaluate_digest(probe.results[1], probe.results[2],
                                                  probe.results[3]))
    /\ ProgramUnchanged

\* passes_quality_gate and _determine_quality_badge on the scores, and
\* passes_quality_gate on the same scores with another average.
GateProbe ==
    /\ probe.phase = "evaluated"
    /\ \E average \in ScoreLevels \cup {0} :
         probe' = [phase |-> "gated", ragas_available |-> probe.ragas_available,
                   sample_ok |-> probe.sample_ok, answers |-> probe.answers,
                   results |-> probe.results, scores |-> probe.scores,
                   passed |-> passes_quality_gate(probe.scores),
                   other_average |-> average,
                   passed_other |->
                       passes_quality_gate([probe.scores EXCEPT !.average = average]),
                   badge |-> _determine_quality_badge(probe.scores)]
    /\ ProgramUnchanged

NextEval ==
    \/ \E i \in 1..3 : MetricProbe(i)
    \/ JoinProbe
    \/ GateProbe

EvalSpec == InitEval /\ [][NextEval]_vars

Computed ==
    probe.phase \in {"evaluated", "gated"} /\ probe.ragas_available /\ probe.sample_ok

\* C13: when a metric computation fails its score is the fallback 0.75, the
\* other metrics keep their own computed scores, all three are joined before
\* the average is computed, and evaluate_digest returns scores.
C13_IsolatedFallback ==
    Computed =>
        /\ \A i \in 1..3 :
              /\ probe.results[i] # Pending
              /\ probe.answers[i] = MetricError => probe.scores[Metrics[i]] = FallbackScore
              /\ probe.answers[i] # MetricError => probe.scores[Metrics[i]] = probe.answers[i]
        /\ probe.scores.average =
               FloatMean(probe.scores.faithfulness, probe.scores.context_precision,
                         probe.scores.context_recall)

C13_Witness ==
    /\ Computed
    /\ probe.answers[1] = 300
    /\ probe.answers[2] = MetricError
    /\ probe.answers[3] = 150
    /\ probe.scores.context_precision = FallbackScore
    /\ probe.scores.average = 225

Gated == probe.phase = "gated"

\* C15: passes_quality_gate(scores) is true exactly when faithfulness,
\* context_precision and context_recall are each >= min_score (0.70
\* included); another value of average gives the same result.
C15_GatePredicate ==
    Gated =>
        /\ probe.passed <=>
              /\ probe.scores.faithfulness >= min_score
              /\ probe.scores.context_precision >= min_score
              /\ probe.scores.context_recall >= min_score
        /\ probe.passed_other = probe.passed

C15_Witness ==
    /\ Gated
    /\ probe.scores.faithfulness = min_score
    /\ probe.scores.context_precision = min_score
    /\ probe.scores.context_recall = min_score
    /\ probe.passed
    /\ probe.other_average = 0
    /\ probe.passed_other

\* C18: in every result of evaluate_digest, average is the unweighted mean
\* of faithfulness, context_precision and context_recall.
C18_AverageIsMean ==
    probe.phase \in {"evaluated", "gated"} =>
        3 * probe.scores.average =
            probe.scores.faithfulness + probe.scores.context_precision
            + probe.scores.context_recall

\* The key of date holds one row, and it has expired.
ExpiredRow(date) ==
    \E r \in digests :
        RowsFor(digests, DefaultUser, date) = {r} /\ now > r.cache_expires_at

C11_NeverServed ==
    \A c \in Callers :
        (ReturnedDigest(c) /\ ret[c].digest.cached) =>
            ret[c].at <= ret[c].digest.generated_at + CacheHours

C11_Step ==
    \A c \in Callers, date \in Dates, m \in world.max_insights, read_ok \in BOOLEAN :
        (ExpiredRow(date) /\ CallWith(c, date, m, FALSE, read_ok)) =>
            /\ pc'[c] = "retrieve"
            /\ ret'[c] = NoRet
            /\ chunks'[c] = <<>> /\ synth_calls'[c] = <<>> /\ gate'[c] = NoGate
            /\ digests' = digests

\* C11: a stored digest whose cache_expires_at is in the past is never
\* returned by the cache lookup; generate with force_refresh = False then
\* starts the pipeline as it does when nothing is stored.
C11_ExpiredNotServed == [](C11_NeverServed) /\ [][C11_Step]_vars

C11_Witness ==
    \E c \in Callers :
        pc[c] = "retrieve" /\ ~args[c].force_refresh /\ ExpiredRow(args[c].date)

C12_Step ==
    \A c \in Callers, date \in Dates, m \in world.max_insights :
        \A r \in digests :
            (/\ RowsFor(digests, DefaultUser, date) = {r}
             /\ now <= r.cache_expires_at
             /\ CallWith(c, date, m, FALSE, TRUE))
                => /\ pc'[c] = "returned"
                   /\ ret'[c].kind = "digest"
                   /\ ret'[c].digest.cached
                   /\ ret'[c].digest.date = r.digest_date
                   /\ ret'[c].digest.insights = r.insights
                   /\ ret'[c].digest.ragas_scores = r.ragas_scores
                   /\ ret'[c].digest.generated_at = r.generated_at
                   /\ ret'[c].digest.metadata = r.metadata
                   /\ chunks'[c] = <<>> /\ context'[c] = "none"
                   /\ insights'[c] = <<>> /\ synth_calls'[c] = <<>>
                   /\ gate'[c] = NoGate
                   /\ digests' = digests /\ written' = written

\* C12: on a cache hit (force_refresh = False, a stored digest for the key
\* that has not expired, the lookup answered) generate returns the stored
\* digest's fields with cached = true, runs no step of the pipeline and
\* leaves the store unchanged.
C12_HitIsReadOnly == [][C12_Step]_vars

C12_Witness ==
    \E c \in Callers :
        /\ ReturnedDigest(c) /\ ret[c].digest.cached
        /\ ret[c].at > ret[c].digest.generated_at
        /\ ret[c].at < ret[c].digest.generated_at + CacheHours
        /\ gate[c] = NoGate
        /\ IsStored(ret[c].digest)

C14_Step ==
    \A c \in Callers :
        \A scores \in EvalOutcomes :
            (EvaluateWith(c, scores, FALSE) /\ pc'[c] = "returned") =>
                /\ ret'[c].kind = "digest"
                /\ ~ret'[c].digest.cached
                /\ ret'[c].digest.insights = gate[c].insights
                /\ ret'[c].digest.ragas_scores = scores
                /\ ret'[c].digest.quality_badge = _determine_quality_badge(scores)
                /\ ret'[c].digest.quality_passed =
                       (IF passes_quality_gate(scores) THEN "true" ELSE "false")
                /\ digests' = digests

\* C14: when the store fails during the upsert at the end of generate,
\* generate returns the assembled digest (the gate's insights and scores,
\* the badge and quality_passed that follow from them) and does not raise.
C14_StoreFailureSwallowed == [][C14_Step]_vars

C14_Witness ==
    \E c \in Callers :
        /\ Generated(c)
        /\ ret[c].digest.insights # <<>>
        /\ ret[c].digest.quality_passed = "true"
        /\ digests = {}

\* The badge the thresholds give to an average.
BadgeOf(average) ==
    IF average >= HighBadgeMin THEN "high"
    ELSE IF average >= GoodBadgeMin THEN "good"
    ELSE "warning"

\* C16: the badge of a digest is a function of ragas_scores.average alone
\* (high from 0.85, good from 0.70, warning below), whatever quality_passed
\* is, and a cache hit carries the badge of the digest originally returned.
C16_BadgeByAverage ==
    \A c \in Callers :
        ReturnedDigest(c) =>
            /\ ret[c].digest.ragas_scores # EmptyScores =>
                   ret[c].digest.quality_badge = BadgeOf(ret[c].digest.ragas_scores.average)
            /\ ret[c].digest.ragas_scores = EmptyScores =>
                   ret[c].digest.quality_badge = "warning"
            /\ ret[c].digest.cached =>
                   /\ written[ret[c].digest.date] # NoDigest
                   /\ ret[c].digest.quality_badge = written[ret[c].digest.date].quality_badge
                   /\ ret[c].digest.ragas_scores = written[ret[c].digest.date].ragas_scores

C16_Witness ==
    \E c \in Callers :
        /\ ReturnedDigest(c) /\ ret[c].digest.cached
        /\ ret[c].digest.quality_badge = "high"
        /\ written[ret[c].digest.date].quality_passed = "false"

C17_Calls ==
    \A c \in Callers :
        \A i \in 1..Len(synth_calls[c]) :
            /\ synth_calls[c][i].system_prompt = (IF i = 1 THEN "default" ELSE "strict")
            /\ i >= 2 => gate[c].scores # EmptyScores

C17_Step ==
    \A c \in Callers :
        (/\ Len(synth_calls'[c]) > Len(synth_calls[c])
         /\ synth_calls'[c][Len(synth_calls'[c])].system_prompt = "strict")
            => /\ pc[c] = "retry"
               /\ gate[c].scores # EmptyScores
               /\ ~passes_quality_gate(gate[c].scores)

\* C17: within one generate call the first synthesis uses the default
\* prompt, every later synthesis is a gate retry with the strict prompt,
\* and the strict prompt is used only after a gate evaluation has failed.
C17_StrictOnlyOnRetry == [](C17_Calls) /\ [][C17_Step]_vars

C17_Witness ==
    \E c \in Callers :
        /\ pc[c] = "evaluate"
        /\ Len(synth_calls[c]) = 2
        /\ synth_calls[c][1].system_prompt = "default"
        /\ synth_calls[c][2].system_prompt = "strict"

C19_NoModel ==
    ~use_anthropic =>
        \A c \in Callers :
            /\ pc[c] \notin {"synthesize", "evaluate", "retry"}
            /\ synth_calls[c] = <<>>
            /\ ReturnedDigest(c) =>
                   /\ ret[c].digest.insights = <<>>
                   /\ ret[c].digest.metadata.error \in {ConfigReason, NoContentReason}

C19_Step ==
    \A c \in Callers, learning_context \in world.contexts, answer \in IndexAnswers :
        (/\ ~use_anthropic
         /\ retrieve(answer, DefaultTopK, DefaultMinSources,
                     recency_weight, priority_weight, similarity_weight) # <<>>
         /\ RetrieveWith(c, learning_context, answer)) =>
            /\ pc'[c] = "returned"
            /\ ret'[c].kind = "digest"
            /\ ret'[c].digest.insights = <<>>
            /\ ret'[c].digest.metadata.error = ConfigReason
            /\ ConfigReason # NoContentReason
            /\ digests' = digests

NoValidInsight(outcome) ==
    \/ outcome = ApiError
    \/ _extract_json(outcome) = ParseError
    \/ \A i \in 1..Len(_extract_json(outcome)) : _extract_json(outcome)[i] = "bad"

NoInsightResponses == {outcome \in Responses : NoValidInsight(outcome)}

C20_Step ==
    \A c \in Callers :
        \A outcome \in world.responses \cap NoInsightResponses :
            SynthesizeWith(c, outcome) =>
                /\ pc'[c] = "returned"
                /\ ret'[c].kind = "digest"
                /\ ret'[c].digest.insights = <<>>
                /\ ret'[c].digest.metadata.error = NoInsightsReason
                /\ gate'[c] = NoGate
                /\ digests' = digests

C20_NoGate ==
    \A c \in Callers :
        (Generated(c) /\ ret[c].digest.metadata.error = NoInsightsReason) =>
            gate[c] = NoGate /\ ret[c].digest.ragas_scores = EmptyScores

\* C20: when the first synthesis yields no insight (failed call,
\* unparseable text, or every insight dropped by validation), generate
\* returns an empty digest with the reason "Failed to generate insights"
\* and the quality gate is not applied.
C20_EmptySynthesis == [](C20_NoGate) /\ [][C20_Step]_vars

C20_Witness ==
    \E c \in Callers :
        /\ Generated(c)
        /\ ret[c].digest.metadata.error = NoInsightsReason
        /\ ret[c].digest.insights = <<>>
        /\ gate[c] = NoGate

(***************************************************************************)
(* The dashboard's digest generation, which shares the digest store with   *)
(* DigestGenerator.                                                        *)
(***************************************************************************)

\* One caller of generate next to the dashboard, a clock that runs past the
\* cache window.
DashboardWorld ==
    [callers |-> {"c1"},
     max_insights |-> {2},
     responses |-> {<<"{", "ok", "}">>},
     metrics |-> {<<270, 270, 270>>, <<207, 300, 300>>},
     contexts |-> {"stored"},
     max_time |-> MaxTime]

\* The scores generate_digest_simple stores: 0.85, 0.80, 0.75, average 0.80.
DashboardScores ==
    [faithfulness |-> 255, context_precision |-> 240, context_recall |-> 225,
     average |-> 240]

\* The insights generate_digest_simple builds from the chat answer: the
\* answer's insights, or one fallback insight when there are none or the
\* answer is not JSON.
DashboardInsights(answered) ==
    [i \in 1..(IF answered = 0 THEN 1 ELSE answered) |->
        [id |-> <<0, i - 1>>, source_chunks |-> <<>>]]

\* The row generate_digest_simple upserts: it names no generated_at and no
\* cache_expires_at.
DashboardRow(user_id, date, new_insights) ==
    [user_id |-> user_id,
     digest_date |-> date,
     insights |-> new_insights,
     ragas_scores |-> DashboardScores,
     generated_at |-> NoTime,
     cache_expires_at |-> NoTime,
     metadata |-> [llm |-> "openai-gpt-4o-mini", generated_at |-> date]]

\* What the environment of generate_digest_simple offers: no OpenAI key, no
\* content, a failing service, or everything in place.
DashboardEnvs == {"no key", "no content", "error", "ready"}

\* generate_digest_simple(user_id, date_obj, max_insights, force_refresh),
\* whole: the configuration tests, the lookup of an existing row, the
\* content test, the generation and the upsert.
generate_digest_simple(date, force_refresh, env, answered) ==
    LET rows == RowsFor(digests, DefaultUser, date)
    IN /\ probe.phase \in {"off", "dashboard"}
       /\ IF env = "no key"
          THEN /\ probe' = [phase |-> "dashboard", kind |-> "demo", cached |-> FALSE,
                            at |-> now]
               /\ UNCHANGED digests
          ELSE IF ~force_refresh /\ rows # {}
          THEN /\ \E digest \in rows :
                    probe' = [phase |-> "dashboard", kind |-> "digest", cached |-> TRUE,
                              insights |-> digest.insights,
                              ragas_scores |-> digest.ragas_scores,
                              quality_badge |-> "good",
                              row |-> digest, at |-> now]
               /\ UNCHANGED digests
          ELSE IF env = "no content"
          THEN /\ probe' = [phase |-> "dashboard", kind |-> "demo", cached |-> FALSE,
                            at |-> now]
               /\ UNCHANGED digests
          ELSE IF env = "error"
          THEN /\ probe' = [phase |-> "dashboard", kind |-> "error", cached |-> FALSE,
                            at |-> now]
               /\ UNCHANGED digests
          ELSE /\ probe' = [phase |-> "dashboard", kind |-> "digest", cached |-> FALSE,
                            insights |-> DashboardInsights(answered),
                            ragas_scores |-> DashboardScores,
                            quality_badge |-> "good",
                            row |-> DashboardRow(DefaultUser, date,
                                                 DashboardInsights(answered)),
                            at |-> now]
               /\ digests' = Upsert(digests, DashboardRow(DefaultUser, date,
                                                          DashboardInsights(answered)))
       /\ UNCHANGED <<world, now, use_anthropic, pc, args, chunks, context,
                      insights, gate, synth_calls, ret, written>>

DashboardCall ==
    \E date \in Dates, force_refresh \in BOOLEAN, env \in DashboardEnvs,
       answered \in 0..1 :
        generate_digest_simple(date, force_refresh, env, answered)

NextDashboard == Next \/ DashboardCall

DashboardSpec == InitIn(DashboardWorld) /\ [][NextDashboard]_vars

\* The dashboard returned a stored row as a cache hit.
DashboardHit == probe.phase = "dashboard" /\ probe.cached

\* C21: a digest is returned as a cache hit only if it was generated no more
\* than 6 hours before the lookup, whichever component wrote the row and
\* whichever component looks it up.
C21_SixHourWindow ==
    /\ \A c \in Callers :
          (ReturnedDigest(c) /\ ret[c].digest.cached
           /\ ret[c].digest.generated_at # NoTime) =>
              ret[c].at <= ret[c].digest.generated_at + CacheHours
    /\ (DashboardHit /\ probe.row.generated_at # NoTime) =>
          probe.at <= probe.row.generated_at + CacheHours

(***************************************************************************)
(* The query builder on its own: every state of the learner's stored       *)
(* context, with and without an explicit query.                            *)
(***************************************************************************)

MaxTopics == 2

NoContext == [none |-> TRUE]

\* The row of learning_progress for the user: missing, unreadable, or
\* present.  current_week 0 and difficulty_level "none" stand for null.
StoredContexts ==
    { [state |-> s, current_week |-> 0, current_topics |-> 0,
       difficulty_level |-> "none", learning_goals |-> FALSE] :
          s \in {"absent", "read error"} }
    \cup
    { [state |-> "present", current_week |-> w, current_topics |-> n,
       difficulty_level |-> d, learning_goals |-> g] :
          w \in 0..1, n \in 0..MaxTopics,
          d \in {"beginner", "intermediate", "advanced", "none"},
          g \in BOOLEAN }

\* _get_learning_context: None when there is no row or the read raises.
_get_learning_context(stored) ==
    IF stored.state # "present" THEN NoContext
    ELSE [current_week |-> stored.current_week,
          current_topics |-> stored.current_topics,
          difficulty_level |-> stored.difficulty_level,
          learning_goals |-> stored.learning_goals]

Part(present, text) == IF present THEN <<text>> ELSE <<>>

\* _construct_query_text: the parts of the query, in order.
_construct_query_text(ctx, explicit_query) ==
    IF explicit_query
    THEN <<"explicit query">>
         \o Part(ctx.current_topics > 0, "related topics")
         \o Part(ctx.difficulty_level # "none", "level hint")
    ELSE Part(ctx.current_week # 0, "week")
         \o Part(ctx.current_topics > 0, "topics")
         \o Part(ctx.difficulty_level # "none", ctx.difficulty_level)
         \o Part(ctx.learning_goals, "goal")
         \o <<"find recent articles">>

GenericQuery == <<"Recent articles about AI and machine learning">>
DefaultContext ==
    [current_week |-> 1, current_topics |-> 2, difficulty_level |-> "intermediate",
     learning_goals |-> TRUE]

\* build_query_from_context
build_query_from_context(stored, explicit_query) ==
    LET learning_context == _get_learning_context(stored)
    IN [raised |-> FALSE,
        query_text |-> IF learning_context = NoContext
                       THEN (IF explicit_query THEN <<"explicit query">> ELSE GenericQuery)
                       ELSE _construct_query_text(learning_context, explicit_query),
        learning_context |-> learning_context]

\* generate, step 2: the query of build_query_from_context and the
\* hardcoded default context when none came back.
generate_query(stored, explicit_query) ==
    LET query_result == build_query_from_context(stored, explicit_query)
    IN [query_result EXCEPT !.learning_context =
           IF query_result.learning_context = NoContext THEN DefaultContext
           ELSE query_result.learning_context]

\* build_weekly_summary_query
build_weekly_summary_query(stored) ==
    LET ctx == _get_learning_context(stored)
    IN IF ctx = NoContext
       THEN [raised |-> TRUE, query_text |-> <<>>, learning_context |-> NoContext]
       ELSE [raised |-> FALSE, query_text |-> <<"weekly summary", "topics covered">>,
             learning_context |-> ctx]

\* build_topic_deep_dive_query
build_topic_deep_dive_query(stored) ==
    LET ctx == _get_learning_context(stored)
        difficulty == IF ctx = NoContext THEN "intermediate"
                      ELSE ctx.difficulty_level
    IN [raised |-> FALSE, query_text |-> <<"deep dive", difficulty>>,
        learning_context |-> ctx]

QueryOps == {"build_query_from_context", "generate", "build_weekly_summary_query",
             "build_topic_deep_dive_query"}

InitQuery ==
    /\ InitProgram(NoWorld)
    /\ use_anthropic = TRUE
    /\ \E stored \in StoredContexts, explicit_query \in BOOLEAN :
         probe = [phase |-> "asking", stored |-> stored,
                  explicit_query |-> explicit_query]

QueryProbe(op) ==
    /\ probe.phase = "asking"
    /\ probe' = [phase |-> "built", stored |-> probe.stored,
                 explicit_query |-> probe.explicit_query, op |-> op,
                 result |->
                    IF op = "build_query_from_context"
                    THEN build_query_from_context(probe.stored, probe.explicit_query)
                    ELSE IF op = "generate"
                    THEN generate_query(probe.stored, probe.explicit_query)
                    ELSE IF op = "build_weekly_summary_query"
                    THEN build_weekly_summary_query(probe.stored)
                    ELSE build_topic_deep_dive_query(probe.stored)]
    /\ UNCHANGED <<world, now, digests, use_anthropic, pc, args, chunks, context,
                   insights, gate, synth_calls, ret, written>>

NextQuery == \E op \in QueryOps : QueryProbe(op)

QuerySpec == InitQuery /\ [][NextQuery]_vars

\* C22: when no LearningContext is stored for the user, or reading it
\* fails, no operation of the query builder raises: build_query_from_context
\* gives the generic query with a null context, generate puts the default
\* context in its place, and the weekly-summary and deep-dive operations
\* return a query.
C22_AbsenceNeverFails ==
    (probe.phase = "built" /\ probe.stored.state # "present") =>
        /\ ~probe.result.raised
        /\ probe.result.query_text # <<>>
        /\ probe.op = "build_query_from_context" =>
              /\ probe.result.learning_context = NoContext
              /\ ~probe.explicit_query => probe.result.query_text = GenericQuery
        /\ probe.op = "generate" => probe.result.learning_context = DefaultContext

\* The ranking step has run.
Ranked == probe.phase \in {"ranked", "diverse"}

\* C23: of two candidates of one retrieve call with the same similarity and
\* the same source priority, the one with the smaller days_old has a hybrid
\* score at least as high, and the descending sort puts it first unless the
\* scores are equal.
C23_RecencyMonotone ==
    Ranked =>
        \A i, j \in 1..Len(probe.ranked_chunks) :
            LET a == probe.ranked_chunks[i]
                b == probe.ranked_chunks[j]
            IN (/\ a.similarity = b.similarity
                /\ a.source_priority = b.source_priority
                /\ a.days_old < b.days_old)
                   => /\ a.final_score >= b.final_score
                      /\ a.final_score > b.final_score => i < j

C23_Witness ==
    /\ Ranked
    /\ \E i, j \in 1..Len(probe.ranked_chunks) :
          LET a == probe.ranked_chunks[i]
              b == probe.ranked_chunks[j]
          IN /\ a.similarity = b.similarity
             /\ a.source_priority = b.source_priority
             /\ a.days_old < b.days_old
             /\ a.final_score > b.final_score
             /\ i < j
             /\ a.id > b.id

\* C24: the recency factor of every candidate lies in [0, 1]: 1 for a
\* chunk published now, 1 - days_old/30 up to 30 days, 0 from 30 days on.
C24_RecencyInUnitRange ==
    Ranked =>
        \A i \in 1..Len(probe.ranked_chunks) :
            LET a == probe.ranked_chunks[i]
            IN /\ a.recency >= 0
               /\ a.recency <= RecencyDays
               /\ a.days_old >= RecencyDays => a.recency = 0
               /\ a.days_old < RecencyDays => a.recency = RecencyDays - a.days_old

\* C30: the sequence retrieve returns is in non-increasing final_score
\* order, so its first three chunks are the three highest-scoring chunks of
\* the returned set.
C30_ReturnedInScoreOrder ==
    probe.phase = "diverse" =>
        \A i, j \in 1..Len(probe.diverse_chunks) :
            i < j => probe.diverse_chunks[i].final_score
                        >= probe.diverse_chunks[j].final_score

\* C26: in every digest generate returns, metadata.num_insights is the
\* number of insights in the digest, also when they come from a gate retry.
C26_InsightCountInMetadata ==
    \A c \in Callers :
        ReturnedDigest(c) =>
            ret[c].digest.metadata.num_insights = Len(ret[c].digest.insights)

\* C27: every digest written to the store after the quality gate holds at
\* least one insight, also when a retry synthesis fails or returns none.
C27_StoredHasInsights ==
    \A r \in digests : Len(r.insights) >= 1

C29_Step ==
    \A c \in Callers :
        \A scores \in EvalOutcomes, store_ok \in BOOLEAN :
            (EvaluateWith(c, scores, store_ok) /\ pc'[c] = "returned") =>
                /\ ret'[c].kind = "digest"
                /\ gate'[c].scores = scores
                /\ ret'[c].digest.ragas_scores = gate'[c].scores
                /\ ret'[c].digest.insights = gate'[c].evaluated
                /\ ret'[c].digest.insights = gate'[c].insights
                /\ gate'[c].passed = (IF passes_quality_gate(scores) THEN "true" ELSE "false")
                /\ ret'[c].digest.quality_passed = gate'[c].passed
                /\ gate'[c].passed = "false" =>
                      /\ gate[c].retry_count = max_retries
                      /\ Len(synth_calls[c]) = max_retries + 1

\* C29: the triple apply_gate returns is consistent: the scores are those of
\* the last evaluation, that evaluation was made on the returned insights,
\* passed is passes_quality_gate(scores), and passed = false comes only
\* after exactly max_retries retry syntheses.
C29_ConsistentTriple == [][C29_Step]_vars

C29_Witness ==
    \E c \in Callers :
        /\ Generated(c)
        /\ gate[c].passed = "false"
        /\ gate[c].retry_count = max_retries
        /\ ret[c].digest.insights = gate[c].evaluated
        /\ ret[c].digest.ragas_scores = gate[c].scores
        /\ Len(ret[c].digest.insights) = 1
        /\ ret[c].digest.metadata.num_insights = 3

(***************************************************************************)
(* InsightSearch.search on its own: every list of at most MaxFound         *)
(* insights collected from the user's digests, every feedback table with   *)
(* at most MaxFeedback rows per insight id, every limit up to MaxLimit.    *)
(***************************************************************************)

MaxFound == 2
MaxFeedback == 1
MaxLimit == 2

InsightIds == {"i1", "i2"}
SearchScores == {50, 90}
FeedbackTypes == {"helpful", "not_helpful"}

\* min_feedback_score is None.
NoFilter == 0 - 1

\* The insights of the user's digests, in the order search collects them,
\* with the similarity the embedding service gives each; n tells two
\* insights with one id apart.
FoundInsights ==
    {[k \in 1..Len(q) |-> [id |-> q[k][1], search_score |-> q[k][2], n |-> k]] :
        q \in SeqsUpTo(InsightIds \X SearchScores, MaxFound)}

\* The rows of the feedback table, by insight_id.
FeedbackTables == [InsightIds -> SeqsUpTo(FeedbackTypes, MaxFeedback)]

\* A count of the feedback rows of any type.
helpful_count_any_type(feedback, insight_id) == Len(feedback[insight_id])

\* sum(1 for f in feedbacks if f["type"] == "helpful")
helpful_count(feedback, insight_id) ==
    Cardinality({k \in 1..Len(feedback[insight_id]) :
                    feedback[insight_id][k] = "helpful"})

\* The feedback filter, in the order of the list.
RECURSIVE FilterByFeedback(_, _, _)
FilterByFeedback(found, feedback, min_feedback_score) ==
    IF found = <<>> THEN <<>>
    ELSE IF helpful_count(feedback, Head(found).id) >= min_feedback_score
         THEN <<Head(found)>>
              \o FilterByFeedback(Tail(found), feedback, min_feedback_score)
         ELSE FilterByFeedback(Tail(found), feedback, min_feedback_score)

\* list.sort(key=search_score, reverse=True): stable.
RECURSIVE InsertBySearchScore(_, _)
InsertBySearchScore(sorted, x) ==
    IF sorted = <<>> THEN <<x>>
    ELSE IF Head(sorted).search_score >= x.search_score
         THEN <<Head(sorted)>> \o InsertBySearchScore(Tail(sorted), x)
         ELSE <<x>> \o sorted

RECURSIVE SortBySearchScore(_)
SortBySearchScore(s) ==
    IF s = <<>> THEN <<>>
    ELSE InsertBySearchScore(SortBySearchScore(SubSeq(s, 1, Len(s) - 1)), s[Len(s)])

\* search, after the digests were read: score, filter, sort, truncate; an
\* exception anywhere gives the empty list.
search(found, feedback, min_feedback_score, limit, service_ok) ==
    IF found = <<>> \/ ~service_ok THEN <<>>
    ELSE Prefix(SortBySearchScore(
                    IF min_feedback_score # NoFilter
                    THEN FilterByFeedback(found, feedback, min_feedback_score)
                    ELSE found),
                limit)

InitSearch ==
    /\ InitProgram(NoWorld)
    /\ use_anthropic = TRUE
    /\ \E found \in FoundInsights, feedback \in FeedbackTables,
          min_feedback_score \in {NoFilter} \cup (0..MaxFeedback),
          limit \in 0..MaxLimit, service_ok \in BOOLEAN :
         probe = [phase |-> "searching", found |-> found, feedback |-> feedback,
                  min_feedback_score |-> min_feedback_score, limit |-> limit,
                  service_ok |-> service_ok]

SearchProbe ==
    /\ probe.phase = "searching"
    /\ probe' = [phase |-> "searched", found |-> probe.found,
                 feedback |-> probe.feedback,
                 min_feedback_score |-> probe.min_feedback_score,
                 limit |-> probe.limit, service_ok |-> probe.service_ok,
                 results |-> search(probe.found, probe.feedback,
                                    probe.min_feedback_score, probe.limit,
                                    probe.service_ok)]
    /\ ProgramUnchanged

NextSearch == SearchProbe

SearchSpec == InitSearch /\ [][NextSearch]_vars

\* The helpful feedback rows of an insight id.
HelpfulRows(insight_id) ==
    {k \in 1..Len(probe.feedback[insight_id]) :
        probe.feedback[insight_id][k] = "helpful"}

\* The insight meets the feedback filter of the call.
MeetsFilter(insight) ==
    probe.min_feedback_score = NoFilter
    \/ Cardinality(HelpfulRows(insight.id)) >= probe.min_feedback_score

IsReturned(insight) ==
    \E i \in 1..Len(probe.results) : probe.results[i].n = insight.n

\* C25: search returns at most limit insights in non-increasing
\* search_score order; with min_feedback_score given every returned insight
\* has that many helpful feedback rows; and no insight that meets the filter
\* and is left out has a higher search_score than a returned one.
C25_SearchResult ==
    probe.phase = "searched" =>
        /\ Len(probe.results) <= probe.limit
        /\ \A i, j \in 1..Len(probe.results) :
              i < j => probe.results[i].search_score >= probe.results[j].search_score
        /\ \A i \in 1..Len(probe.results) :
              /\ MeetsFilter(probe.results[i])
              /\ \E k \in 1..Len(probe.found) : probe.found[k] = probe.results[i]
        /\ \A k \in 1..Len(probe.found) :
              (MeetsFilter(probe.found[k]) /\ ~IsReturned(probe.found[k])) =>
                  \A i \in 1..Len(probe.results) :
                      probe.found[k].search_score <= probe.results[i].search_score

C25_Witness ==
    /\ probe.phase = "searched"
    /\ probe.min_feedback_score = 1
    /\ probe.limit = 1
    /\ Len(probe.found) = 2
    /\ probe.found[1].id # probe.found[2].id
    /\ probe.found[1].search_score > probe.found[2].search_score
    /\ ~MeetsFilter(probe.found[1])
    /\ MeetsFilter(probe.found[2])
    /\ probe.results = <<probe.found[2]>>

(***************************************************************************)
(* The generate_daily_digest tool of the MCP server around generate.       *)
(***************************************************************************)

\* One caller, few answers of the environment, a short clock.
ToolWorld ==
    [callers |-> {"c1"},
     max_insights |-> {2},
     responses |-> {<<"{", "ok", "}">>, <<"txt">>},
     metrics |-> {<<270, 270, 270>>, <<207, 300, 300>>},
     contexts |-> {"stored"},
     max_time |-> TickHours]

\* generate_daily_digest after generate came back with r: the log line
\* reads digest['insights'] and digest['ragas_scores']['average'], and every
\* exception ends in the generic error object.
generate_daily_digest(r) ==
    IF r.kind = "raised"
    THEN [kind |-> "error", error |-> r.error]
    ELSE IF "average" \notin DOMAIN r.digest.ragas_scores
    THEN [kind |-> "error", error |-> "'average'"]
    ELSE [kind |-> "digest", digest |-> r.digest]

\* The tool returns to its caller after generate came back.
ToolReturns(c) ==
    /\ pc[c] = "returned"
    /\ probe' = [phase |-> "tool", generated |-> ret[c],
                 result |-> generate_daily_digest(ret[c])]
    /\ ProgramUnchanged

\* The tool is called with a date that datetime.fromisoformat rejects:
\* generate is not called.
ToolRejects(c) ==
    /\ c \in world.callers
    /\ pc[c] \in {"idle", "returned"}
    /\ probe' = [phase |-> "tool", generated |-> NoRet,
                 result |-> [kind |-> "error", error |-> "Invalid isoformat string"]]
    /\ ProgramUnchanged

NextTool ==
    \/ Next
    \/ \E c \in Callers : ToolReturns(c)
    \/ \E c \in Callers : ToolRejects(c)

ToolSpec == InitIn(ToolWorld) /\ [][NextTool]_vars

\* C28: whenever generate returns an empty digest (configuration error, no
\* relevant content, failed synthesis), the generate_daily_digest tool
\* returns that digest, with its metadata.error, and not an error object.
C28_EmptyDigestSurfaced ==
    (/\ probe.phase = "tool"
     /\ probe.generated.kind = "digest"
     /\ probe.generated.digest.insights = <<>>
     /\ probe.generated.digest.metadata.error # "none") =>
        /\ probe.result.kind = "digest"
        /\ probe.result.digest = probe.generated.digest

====
